---------------------------- MODULE Spec2Model ----------------------------
(***************************************************************************)
(* The token ring of src/charm.py (FeedAndSyncCharm).                      *)
(*                                                                         *)
(* Every unit owns one send bucket (its FeedAndSyncInterface on the        *)
(* ping-send relation).  The ping action writes a fresh token into it, a   *)
(* ping-receive relation-changed event reads the bucket of the remote unit *)
(* that changed and writes the next token into the local send bucket, and  *)
(* a config-changed event refreshes the stored max_cycles and delay.       *)
(*                                                                         *)
(* A handler runs to its end without another handler of any unit in        *)
(* between.  An assignment to a field of the send bucket takes effect when *)
(* it is made: a handler that raises leaves the fields it had assigned.    *)
(* A handler run that assigned a field owes one change notification to     *)
(* every unit of the ping-send relation; each notification is handled      *)
(* once, and the handler reads the remote bucket as it is at that time.    *)
(* Time is counted in integer clock ticks; every unit reads a clock of its *)
(* own (time.time() on its host).                                          *)
(***************************************************************************)
EXTENDS Integers, FiniteSets, Sequences, TLC

VARIABLES
    relUnits,   \* relUnits[u]: the units of the ping-send relation of u (r.units)
    bucket,     \* bucket[u]: the send bucket of unit u
    stored,     \* stored[u]: self._stored.bucket of unit u
    config,     \* config[u]: self.config as unit u read it last
    status,     \* status[u]: self.unit.status of unit u
    pending,    \* pending[q][p]: change notifications of bucket[q] owed to p
    injects,    \* number of ping actions run so far
    configs,    \* number of config-changed events run so far
    writes,     \* number of handler runs that wrote to a bucket
    event       \* the event dispatched last, its inputs and its outcome:
                \* op, unit (where it ran), from (event.unit), token, target,
                \* out (how the handler ended), now (its time.time() reading),
                \* slept (seconds in time.sleep), early (fields assigned
                \* before the sleep), woke (the clock when the sleep of a
                \* handler that read the time was over)

vars == <<relUnits, bucket, stored, config, status, pending, injects, configs,
          writes, event>>

---------------------------------------------------------------------------
(* Bounds of the model. *)

\* clock readings at handler entry are 0..MaxTime
MaxTime == 1
\* the configured delay is 0..MaxDelay
MaxDelay == 1
\* a configured max-cycles is unset or 0..MaxCycles
MaxCycles == 2
\* ping actions per behaviour
MaxInjects == 2
\* config-changed events per behaviour
MaxConfigs == 1
\* change notifications one unit can be owed by one bucket
MaxPending == 1

---------------------------------------------------------------------------
(* Units, applications and the relations between them. *)

Units == {"a/0", "b/0", "b/1", "c/0"}

\* Unit.app: the application a unit belongs to
App(u) == CASE u = "a/0" -> "a"
            [] u \in {"b/0", "b/1"} -> "b"
            [] OTHER -> "c"

NoUnits == [u \in Units |-> {}]

\* a: ping-send -> b: ping-receive, b: ping-send -> a: ping-receive
Ring2 == [NoUnits EXCEPT !["a/0"] = {"b/0"}, !["b/0"] = {"a/0"}]
\* a -> b -> c -> a
Ring3 == [NoUnits EXCEPT !["a/0"] = {"b/0"}, !["b/0"] = {"c/0"}, !["c/0"] = {"a/0"}]
\* a -> b -> a, application b with two units
Fan == [NoUnits EXCEPT !["a/0"] = {"b/0", "b/1"}, !["b/0"] = {"a/0"}, !["b/1"] = {"a/0"}]
\* a -> b, and no unit on the ping-send relation of b
Chain == [NoUnits EXCEPT !["a/0"] = {"b/0"}]

\* the rings with one unit per application
Rings == {Ring2, Ring3}
\* the deployments a single token is followed through
AllTopologies == {Ring2, Ring3, Fan, Chain}
\* the deployments any sequence of events is followed through
Topologies == {Ring2, Chain}

\* the units deployed in topology t
Members(t) == {u \in Units : t[u] # {} \/ \E v \in Units : u \in t[v]}

\* the units of ring t
RingSize(t) == Cardinality(Members(t))

\* hops a token is followed for: MaxCycles laps of the largest ring
HopCap == RingSize(Ring3) * MaxCycles

---------------------------------------------------------------------------
(* The bucket: FeedAndSyncInterface. *)

\* the data bag has no "message" key
NoKey == "<no key>"
\* self._stored.bucket["max_cycles"] is None: equal to no cycle count
None == -1
\* target is the empty list
NoTarget == "<none>"
\* no remote unit (the ping action has no event.unit)
NoUnit == "<none>"

Tokens == {"", "hello"}

\* the defaults of the Value descriptors
EmptyBucket ==
    [message |-> NoKey, origin |-> "", next_holder |-> "",
     cycles_complete |-> 0, times_passed |-> 0, times_received |-> 0,
     time_elapsed |-> 0, timestamp |-> 0]

\* checker.IntegerRange(0, None), checker.FloatRange(0.0, None)
InRange(v) == v >= 0


\* send_bucket.time_elapsed = v is refused by FloatRange(0.0, None)
Rejected(v) == ~InRange(v)

---------------------------------------------------------------------------
(* self.unit.status *)

BlankStatus(kind) ==
    [kind |-> kind, M |-> "", H |-> "", P |-> 0, R |-> 0, C |-> 0, T |-> 0]

\* the status of a unit no handler has set yet
UnknownStatus == BlankStatus("unknown")

\* ActiveStatus()
ActiveStatus == BlankStatus("active")

\* ActiveStatus("Max cycles reached. Time to completion is {time_elapsed} seconds.")
MaxCyclesStatus(recv) == [BlankStatus("max_cycles") EXCEPT !.T = recv.time_elapsed]

\* ActiveStatus("M: .. H: .. P: .. R: .. C: .. T: ..")
TokenStatus(recv) ==
    [kind |-> "token", M |-> recv.message, H |-> recv.next_holder,
     P |-> recv.times_passed, R |-> recv.times_received + 1,
     C |-> recv.cycles_complete, T |-> recv.time_elapsed]

---------------------------------------------------------------------------
(* self._stored.bucket and _on_config_changed *)

\* self._stored.set_default(bucket={max_cycles: None, delay: 0})
StoredDefault == [max_cycles |-> None, delay |-> 0]

\* the values self.config can hold
Configs == [max_cycles : {None} \cup 0..MaxCycles, delay : 0..MaxDelay]

\* mutant: the delay of the configuration is not taken over
ConfigUpdateMaxCyclesOnly(storage, cfg) ==
    IF cfg.max_cycles # storage.max_cycles
    THEN [storage EXCEPT !.max_cycles = cfg.max_cycles]
    ELSE storage

\* the storage after _on_config_changed has run with configuration cfg
ConfigUpdate(storage, cfg) ==
    LET s1 == IF cfg.max_cycles # storage.max_cycles
              THEN [storage EXCEPT !.max_cycles = cfg.max_cycles]
              ELSE storage
    IN  IF cfg.delay # s1.delay THEN [s1 EXCEPT !.delay = cfg.delay] ELSE s1

---------------------------------------------------------------------------
(* The forwarding target. *)

\* [u.name for u in r.units if u.app is not self.app]
Candidates(self, units) == {u \in units : App(u) # App(self)}

\* target[0]: r.units is a set, any candidate can come first; NoTarget when
\* the list is empty
Targets(self, units) ==
    IF Candidates(self, units) = {} THEN {NoTarget} ELSE Candidates(self, units)

---------------------------------------------------------------------------
(* _on_ping_action as a function of the send bucket. *)

\* mutant: cycles_complete is left as it was
PingResultKeepsCycles(self, send, token, target, clock) ==
    LET b1 == [send EXCEPT !.message = token, !.origin = self]
    IN  IF target = NoTarget
        THEN [bucket |-> b1, out |-> "IndexError", now |-> 0, target |-> NoTarget]
        ELSE [bucket |-> [b1 EXCEPT !.next_holder = target,
                                    !.times_passed = 1,
                                    !.times_received = 0,
                                    !.time_elapsed = 0,
                                    !.timestamp = clock],
              out |-> "sent", now |-> clock, target |-> target]

\* the bucket after the ping action and how the handler ended; the
\* time.sleep(delay) that follows the assignments changes nothing
PingResult(self, send, token, target, clock) ==
    LET b1 == [send EXCEPT !.message = token, !.origin = self]
    IN  IF target = NoTarget
        THEN [bucket |-> b1, out |-> "IndexError", now |-> 0, target |-> NoTarget]
        ELSE [bucket |-> [b1 EXCEPT !.next_holder = target,
                                    !.cycles_complete = 0,
                                    !.times_passed = 1,
                                    !.times_received = 0,
                                    !.time_elapsed = 0,
                                    !.timestamp = clock],
              out |-> "sent", now |-> clock, target |-> target]

---------------------------------------------------------------------------
(* _on_ping_receive_relation_changed as a function of the two buckets. *)

\* mutant: only the missing key is ignored
EmptyMessageNoKey(recv) == recv.message = NoKey

\* "message" not in data or data.get("message") == ""
EmptyMessage(recv) == recv.message = NoKey \/ recv.message = ""

\* c = recv_bucket.cycles_complete + 1
CyclesCandidate(recv) == recv.cycles_complete + 1

\* mutant: an unset max_cycles halts the token as well
MaxCyclesReachedOrUnset(self, recv, storage) ==
    /\ recv.origin = self
    /\ storage.max_cycles = CyclesCandidate(recv) \/ storage.max_cycles = None

\* mutant: the stored max_cycles compared with recv_bucket.cycles_complete
MaxCyclesReachedLate(self, recv, storage) ==
    recv.origin = self /\ storage.max_cycles = recv.cycles_complete

\* mutant: the stored max_cycles halts the token at any unit
MaxCyclesReachedAnywhere(self, recv, storage) ==
    storage.max_cycles = CyclesCandidate(recv)

\* recv_bucket.origin == self.unit.name and stored max_cycles == c
MaxCyclesReached(self, recv, storage) ==
    recv.origin = self /\ storage.max_cycles = CyclesCandidate(recv)

\* mutant: every hop counts as a lap
CyclesOutEveryHop(self, recv) == CyclesCandidate(recv)

\* the value assigned to send_bucket.cycles_complete when the token goes on
CyclesOut(self, recv) ==
    IF recv.origin = self THEN CyclesCandidate(recv) ELSE recv.cycles_complete

\* mutant: the forwarding unit signs the token as its own
OriginOutSelf(self, recv) == self

\* send_bucket.origin = recv_bucket.origin
OriginOut(self, recv) == recv.origin

\* mutant: a hop counted twice
TimesPassedOutTwice(recv) == recv.times_passed + 2

\* send_bucket.times_passed = recv_bucket.times_passed + 1
TimesPassedOut(recv) == recv.times_passed + 1

\* recv_bucket.time_elapsed + (timestamp - recv_bucket.timestamp)
ElapsedOut(recv, timestamp) == recv.time_elapsed + (timestamp - recv.timestamp)

\* the seconds spent in time.sleep: if (delay := stored delay) > 0
Slept(storage) == IF storage.delay > 0 THEN storage.delay ELSE 0

\* time.time() after time.sleep(delay), the handler entered at clock
TimeAfterDelay(clock, storage) ==
    IF storage.delay > 0 THEN clock + storage.delay ELSE clock

\* the fields of the send bucket
Fields == {"message", "origin", "next_holder", "cycles_complete",
           "times_passed", "times_received", "time_elapsed", "timestamp"}

\* the fields _on_ping_action has assigned when it reaches its time.sleep:
\* all of them (the sleep is its last statement; an IndexError ends the
\* handler before)
PingEarly(out) == IF out = "sent" THEN Fields ELSE {}

\* the fields _on_ping_receive_relation_changed has assigned when it reaches
\* its time.sleep: cycles_complete
ReceiveEarly(out) ==
    IF out \in {"forwarded", "CheckError", "IndexError"}
    THEN {"cycles_complete"} ELSE {}

\* the send bucket and the status after the handler, and how it ended
ReceiveResult(self, send, recv, st, storage, target, clock) ==
    IF EmptyMessage(recv)
    THEN [bucket |-> send, status |-> st, out |-> "ignored",
          now |-> 0, target |-> NoTarget]
    ELSE IF MaxCyclesReached(self, recv, storage)
    THEN [bucket |-> send, status |-> MaxCyclesStatus(recv), out |-> "halted",
          now |-> 0, target |-> NoTarget]
    ELSE
    LET b1 == [send EXCEPT !.cycles_complete = CyclesOut(self, recv)]
        b2 == [b1 EXCEPT !.message = recv.message,
                         !.origin = OriginOut(self, recv)]
    IN  IF target = NoTarget
        THEN [bucket |-> b2, status |-> TokenStatus(recv), out |-> "IndexError",
              now |-> 0, target |-> NoTarget]
        ELSE
        LET b3 == [b2 EXCEPT !.next_holder = target,
                             !.cycles_complete =
                                 IF @ # recv.cycles_complete
                                 THEN @ ELSE recv.cycles_complete,
                             !.times_passed = TimesPassedOut(recv),
                             !.times_received = recv.times_received + 1]
            timestamp == TimeAfterDelay(clock, storage)
            elapsed == ElapsedOut(recv, timestamp)
        IN  IF Rejected(elapsed)
            THEN [bucket |-> b3, status |-> TokenStatus(recv),
                  out |-> "CheckError", now |-> timestamp, target |-> target]
            ELSE [bucket |-> [b3 EXCEPT !.time_elapsed = elapsed,
                                        !.timestamp = timestamp],
                  status |-> ActiveStatus, out |-> "forwarded",
                  now |-> timestamp, target |-> target]

---------------------------------------------------------------------------
(* Change notifications. *)

\* a write to bucket[self] is published to every unit of its ping-send relation
Publish(pend, self, units) ==
    [pend EXCEPT ![self] = [p \in Units |-> IF p \in units THEN @[p] + 1 ELSE @[p]]]

\* unit self has handled one notification of bucket[unit]
Consume(pend, unit, self) == [pend EXCEPT ![unit][self] = @ - 1]

\* no unit is owed a notification
Quiet == \A q, p \in Units : pending[q][p] = 0

\* the handler run assigned a field of the send bucket
Wrote(out) == out \in {"sent", "forwarded", "IndexError", "CheckError"}

\* the notifications a publish would add stay within the model's bound
CanPublish(self) == \A p \in relUnits[self] : pending[self][p] < MaxPending

---------------------------------------------------------------------------
(* The handlers. *)

\* mutant: the handler writes into the bucket it received
SendBucketOfRemote(self, unit) == unit

\* send_bucket = self.i_send.select(self.unit): the bucket a handler running
\* at self for event.unit = unit assigns to
SendBucket(self, unit) == self

\* _on_config_changed with self.config = cfg
_on_config_changed(self, cfg) ==
    /\ self \in Members(relUnits)
    /\ configs < MaxConfigs
    /\ configs' = configs + 1
    /\ config' = [config EXCEPT ![self] = cfg]
    /\ stored' = [stored EXCEPT ![self] = ConfigUpdate(stored[self], cfg)]
    /\ event' = [op |-> "config", unit |-> self, from |-> NoUnit, token |-> "",
                 now |-> 0, target |-> NoTarget, out |-> "ok",
                 slept |-> 0, woke |-> 0, early |-> {}]
    /\ UNCHANGED <<relUnits, bucket, status, pending, injects, writes>>

\* _on_ping_action with event.params["token"] = token, entered at clock
_on_ping_action(self, token, target, clock) ==
    /\ self \in Members(relUnits)
    /\ target \in Targets(self, relUnits[self])
    /\ CanPublish(self)
    /\ LET r == PingResult(self, bucket[self], token, target, clock)
           sleeps == IF r.out = "sent" THEN Slept(stored[self]) ELSE 0
       IN  /\ bucket' = [bucket EXCEPT ![SendBucket(self, self)] = r.bucket]
           /\ pending' = Publish(pending, self, relUnits[self])
           /\ event' = [op |-> "ping", unit |-> self, from |-> NoUnit,
                        token |-> token, now |-> r.now, target |-> r.target,
                        out |-> r.out, slept |-> sleeps,
                        woke |-> r.now + sleeps, early |-> PingEarly(r.out)]
    /\ injects' = injects + 1
    /\ writes' = writes + 1
    /\ UNCHANGED <<relUnits, stored, config, status, configs>>

\* _on_ping_receive_relation_changed with event.unit = unit, entered at clock
_on_ping_receive_relation_changed(self, unit, target, clock) ==
    /\ self \in relUnits[unit]
    /\ pending[unit][self] > 0
    /\ target \in Targets(self, relUnits[self])
    /\ LET r == ReceiveResult(self, bucket[self], bucket[unit], status[self],
                              stored[self], target, clock)
       IN  /\ r.bucket.times_passed <= HopCap
           /\ Wrote(r.out) => CanPublish(self)
           /\ bucket' = [bucket EXCEPT ![SendBucket(self, unit)] = r.bucket]
           /\ status' = [status EXCEPT ![self] = r.status]
           /\ pending' = IF Wrote(r.out)
                         THEN Publish(Consume(pending, unit, self), self,
                                      relUnits[self])
                         ELSE Consume(pending, unit, self)
           /\ writes' = IF Wrote(r.out) THEN writes + 1 ELSE writes
           /\ event' = [op |-> "changed", unit |-> self, from |-> unit,
                        token |-> "", now |-> r.now, target |-> r.target,
                        out |-> r.out,
                        slept |-> IF ReceiveEarly(r.out) # {}
                                  THEN Slept(stored[self]) ELSE 0,
                        woke |-> r.now, early |-> ReceiveEarly(r.out)]
    /\ UNCHANGED <<relUnits, stored, config, injects, configs>>

---------------------------------------------------------------------------
(* Specifications. *)

Clock == 0..MaxTime

\* the charm of every unit constructed, every relation joined: each unit is
\* owed the relation-changed that follows relation-joined
InitIn(topologies) ==
    /\ relUnits \in topologies
    /\ bucket = [u \in Units |-> EmptyBucket]
    /\ stored = [u \in Units |-> StoredDefault]
    /\ config = [u \in Units |-> StoredDefault]
    /\ status = [u \in Units |-> UnknownStatus]
    /\ pending = [q \in Units |-> [p \in Units |->
                     IF p \in relUnits[q] THEN 1 ELSE 0]]
    /\ injects = 0
    /\ configs = 0
    /\ writes = 0
    /\ event = [op |-> "none", unit |-> NoUnit, from |-> NoUnit, token |-> "",
                now |-> 0, target |-> NoTarget, out |-> "ok",
                slept |-> 0, woke |-> 0, early |-> {}]

Init == InitIn(Topologies)

ConfigChanged == \E self \in Units, cfg \in Configs : _on_config_changed(self, cfg)

TokenArrived ==
    \E self, unit \in Units, target \in Units \cup {NoTarget}, clock \in Clock :
        _on_ping_receive_relation_changed(self, unit, target, clock)

\* any number of ping actions, at any time
Ping ==
    /\ injects < MaxInjects
    /\ \E self \in Units, token \in Tokens, target \in Units \cup {NoTarget},
          clock \in Clock : _on_ping_action(self, token, target, clock)

Next == Ping \/ ConfigChanged \/ TokenArrived

Spec == Init /\ [][Next]_vars

\* one ping action, run once every unit has handled the joining of its
\* relations; the configuration can change at any time
PingOnce ==
    /\ injects = 0
    /\ Quiet
    /\ \E self \in Units, token \in Tokens, target \in Units \cup {NoTarget},
          clock \in Clock : _on_ping_action(self, token, target, clock)

InitOne == InitIn(AllTopologies)

NextOne == PingOnce \/ ConfigChanged \/ TokenArrived

SpecOne == InitOne /\ [][NextOne]_vars

\* a ring with one unit per application: the configuration is set before the
\* one ping action and left alone afterwards; every notification owed is
\* delivered
ConfigBefore == injects = 0 /\ ConfigChanged

InitRing == InitIn(Rings)

NextRing == ConfigBefore \/ PingOnce \/ TokenArrived

Delivery ==
    \A self, unit \in Units :
        WF_vars(\E target \in Units \cup {NoTarget}, clock \in Clock :
                    _on_ping_receive_relation_changed(self, unit, target, clock))

SpecRing == InitRing /\ [][NextRing]_vars /\ Delivery

---------------------------------------------------------------------------
(* Vocabulary of the properties. *)

\* the step is _on_ping_receive_relation_changed at self for the bucket of unit
Arrived(self, unit) ==
    event'.op = "changed" /\ event'.unit = self /\ event'.from = unit

\* the step is _on_ping_action at self
Pinged(self) == event'.op = "ping" /\ event'.unit = self

\* the bucket holds a token
HoldsToken(b) == b.message # NoKey /\ b.message # ""

\* the engine of unit u is Halted: its status is the completion message
Halted(u) == status[u].kind = "max_cycles"

\* the notifications owed in the whole deployment
RECURSIVE Owed(_)
Owed(links) ==
    IF links = {} THEN 0
    ELSE LET l == CHOOSE l \in links : TRUE
         IN  pending[l[1]][l[2]] + Owed(links \ {l})

InFlight == Owed(Units \X Units)

\* the unit whose token a ring carries, once the ping action has run
IsOrigin(o) == injects = 1 /\ bucket[o].origin = o

\* the unit whose bucket unit o reads in a ring
Before(o) == CHOOSE q \in Units : o \in relUnits[q]

---------------------------------------------------------------------------
(* C1: the halt. *)

\* C1, the halting step: the handler that runs at the token's origin with
\* received.cycles_complete + 1 equal to the stored max_cycles writes nothing
\* to any bucket and sets the completion status naming received.time_elapsed.
C1_HaltStep ==
    \A self, unit \in Units :
        ( /\ Arrived(self, unit)
          /\ HoldsToken(bucket[unit])
          /\ bucket[unit].origin = self
          /\ stored[self].max_cycles = bucket[unit].cycles_complete + 1 )
        => /\ bucket' = bucket
           /\ Halted(self)'
           /\ status'[self].T = bucket[unit].time_elapsed

\* C1, Halted is terminal: once a unit is Halted no bucket is written again.
C1_NoWriteAfterHalt == (\E u \in Units : Halted(u)) => bucket' = bucket

\* C1 (as claimed): the origin halts without writing and reports
\* received.time_elapsed, and from then on no unit writes a token of the run
\* (one ping action, any deployment).
C1_HaltIsTerminal == [][C1_HaltStep /\ C1_NoWriteAfterHalt]_vars

---------------------------------------------------------------------------
(* C2: the bounded run of a ring. *)

\* the token that came back to the halted origin o is the last one written:
\* N * k writes have been made, and it carries the counters of the last hop
HaltedAfter(o, k) ==
    LET n == RingSize(relUnits)
        last == bucket[Before(o)]
    IN  /\ writes = n * k
        /\ last.times_passed = n * k
        /\ last.times_received = n * k - 1
        /\ last.cycles_complete = k - 1
        /\ bucket[o].times_passed = n * (k - 1) + 1

\* the ping action ran at o, with max_cycles = k stored there
RunOf(o, k) == IsOrigin(o) /\ stored[o].max_cycles = k

\* C2 (as claimed): in a ring of N units, one per application, with
\* max_cycles = k >= 1 stored at the origin before the one ping action, the
\* origin is eventually Halted, after exactly N * k bucket writes, the last one
\* with times_passed = N * k, times_received = N * k - 1, cycles_complete = k - 1.
C2_BoundedRunAnyToken ==
    \A o \in Units, k \in 1..MaxCycles :
        /\ RunOf(o, k) ~> Halted(o)
        /\ [](RunOf(o, k) /\ Halted(o) => HaltedAfter(o, k))

\* C2 (amended): the same for a ping action whose token is not the empty string.
C2_BoundedRun ==
    \A o \in Units, k \in 1..MaxCycles :
        /\ (RunOf(o, k) /\ HoldsToken(bucket[o])) ~> Halted(o)
        /\ [](RunOf(o, k) /\ Halted(o) => HaltedAfter(o, k))

\* C2 witness: a ring of three units halted after two laps, six writes.
C2_HaltedAfterTwoLaps ==
    \E o \in Units :
        /\ IsOrigin(o) /\ Halted(o) /\ stored[o].max_cycles = 2
        /\ RingSize(relUnits) = 3 /\ writes = 6

---------------------------------------------------------------------------
(* C3: the counters. *)

\* C3 (as claimed): every bucket that holds a token has
\* times_passed = times_received + 1, after any sequence of ping actions, token
\* arrivals and configuration changes, failed handlers included.
C3_CounterInvariant ==
    \A u \in Units :
        HoldsToken(bucket[u]) => bucket[u].times_passed = bucket[u].times_received + 1

---------------------------------------------------------------------------
(* C4: the lap counter. *)

\* C4: a unit that handles a token and writes to its bucket writes
\* cycles_complete = received.cycles_complete + 1 when it is the token's origin
\* and cycles_complete = received.cycles_complete when it is not: the count
\* never decreases and grows by 1 at the origin only.
C4_LapStep ==
    \A self, unit \in Units :
        (Arrived(self, unit) /\ Wrote(event'.out)) =>
            LET d == bucket'[self].cycles_complete - bucket[unit].cycles_complete
            IN  /\ d \in {0, 1}
                /\ d = 1 <=> bucket[unit].origin = self

C4_LapCounter == [][C4_LapStep]_vars

\* C4 witness: the origin has forwarded its token into the second lap, the
\* unit before it had forwarded it without counting a lap.
C4_LapCounted ==
    /\ event.op = "changed" /\ event.out = "forwarded"
    /\ bucket[event.unit].origin = event.unit
    /\ bucket[event.unit].cycles_complete = 1
    /\ bucket[event.from].cycles_complete = 0
    /\ bucket[event.from].times_passed = 2

---------------------------------------------------------------------------
(* C5: the unbounded ring. *)

\* the laps the origin of ring t can count within HopCap hops
MaxLaps(t) == (HopCap - 1) \div RingSize(t)

\* the ping action ran at o, where max_cycles is unset
UnboundedRun(o) == IsOrigin(o) /\ stored[o].max_cycles = None

\* while max_cycles is unset at the origin no unit is Halted
NeverHalted ==
    \A o \in Units : UnboundedRun(o) => \A u \in Units : ~Halted(u)

\* every return of the token to its origin adds exactly one lap
LapPerReturn ==
    \A o, unit \in Units :
        (UnboundedRun(o) /\ Arrived(o, unit) /\ HoldsToken(bucket[unit])) =>
            /\ event'.out \in {"forwarded", "CheckError"}
            /\ bucket'[o].cycles_complete = bucket[unit].cycles_complete + 1
            /\ bucket'[o].cycles_complete = bucket[o].cycles_complete + 1

\* C5 (as claimed): with max_cycles unset no unit ever halts, and after the
\* one ping action the token is forwarded on and on (for the HopCap hops
\* followed), the origin counting one more lap at every return, so that every
\* lap count (within those hops) is reached.
C5_UnboundedAnyToken ==
    /\ []NeverHalted
    /\ [][LapPerReturn]_vars
    /\ \A o \in Units :
           /\ UnboundedRun(o) ~> (\E u \in Units : bucket[u].times_passed = HopCap)
           /\ \A n \in 1..MaxCycles :
                  (UnboundedRun(o) /\ n <= MaxLaps(relUnits))
                      ~> (bucket[o].cycles_complete >= n)

\* C5 (amended): the same for a ping action whose token is not the empty string.
C5_Unbounded ==
    /\ []NeverHalted
    /\ [][LapPerReturn]_vars
    /\ \A o \in Units :
           /\ (UnboundedRun(o) /\ HoldsToken(bucket[o]))
                  ~> (\E u \in Units : bucket[u].times_passed = HopCap)
           /\ \A n \in 1..MaxCycles :
                  (UnboundedRun(o) /\ HoldsToken(bucket[o]) /\ n <= MaxLaps(relUnits))
                      ~> (bucket[o].cycles_complete >= n)

\* C5 witness: with max_cycles unset the origin has counted two laps.
C5_TwoLaps ==
    \E o \in Units : UnboundedRun(o) /\ bucket[o].cycles_complete = 2

---------------------------------------------------------------------------
(* C6: the empty-token guard. *)

\* C6: the handler that finds no message key, or the empty message, in the
\* bucket that changed returns without an error and leaves every bucket, every
\* status and every stored configuration as they were.
C6_GuardStep ==
    \A self, unit \in Units :
        (Arrived(self, unit) /\ ~HoldsToken(bucket[unit])) =>
            /\ event'.out = "ignored"
            /\ bucket' = bucket
            /\ status' = status
            /\ stored' = stored
            /\ config' = config

C6_EmptyTokenIgnored == [][C6_GuardStep]_vars

\* C6 witness: a unit whose status a handler had set has ignored a bucket
\* whose message is the empty string.
C6_EmptyMessageSeen ==
    /\ event.op = "changed" /\ event.out = "ignored"
    /\ bucket[event.from].message = ""
    /\ status[event.unit].kind # "unknown"

---------------------------------------------------------------------------
(* C7: the elapsed time. *)

\* C7 (as claimed): a handler that forwards the token writes
\* time_elapsed = received.time_elapsed + (now - received.timestamp) and
\* timestamp = now, and time_elapsed is never negative and never smaller than
\* the received one, for every clock reading.
C7_ElapsedStep ==
    \A self, unit \in Units :
        (Arrived(self, unit) /\ event'.out = "forwarded") =>
            /\ bucket'[self].timestamp = event'.now
            /\ bucket'[self].time_elapsed =
                   bucket[unit].time_elapsed + (event'.now - bucket[unit].timestamp)
            /\ bucket'[self].time_elapsed >= 0
            /\ bucket'[self].time_elapsed >= bucket[unit].time_elapsed

C7_ElapsedNeverDecreases == [][C7_ElapsedStep]_vars

---------------------------------------------------------------------------
(* C8: the ping action. *)

\* C8: a ping action at a unit that has a forwarding target replaces the
\* bucket, whatever it held, by the new token: the action's message, the unit
\* as origin, the target as next_holder, cycles_complete 0, times_passed 1,
\* times_received 0, time_elapsed 0 and the clock reading as timestamp.
C8_InjectStep ==
    \A self \in Units :
        (Pinged(self) /\ Candidates(self, relUnits[self]) # {}) =>
            /\ event'.target \in Candidates(self, relUnits[self])
            /\ event'.token \in Tokens
            /\ event'.now \in Clock
            /\ bucket'[self] =
                   [message |-> event'.token, origin |-> self,
                    next_holder |-> event'.target, cycles_complete |-> 0,
                    times_passed |-> 1, times_received |-> 0,
                    time_elapsed |-> 0, timestamp |-> event'.now]

C8_InjectOverwrites == [][C8_InjectStep]_vars

\* C8 witness: a ping action at a unit whose run had halted, over the token
\* of that run.
C8_InjectAfterHalt ==
    /\ event.op = "ping" /\ event.out = "sent"
    /\ injects = 2
    /\ Halted(event.unit)
    /\ bucket[event.unit].timestamp = 1

---------------------------------------------------------------------------
(* C9: no forwarding peer. *)

\* C9 (as claimed): a ping action or a token arrival at a unit without a
\* forwarding candidate fails and leaves the unit's bucket as it was.
C9_NoPeerStep ==
    \A self \in Units :
        ( /\ Candidates(self, relUnits[self]) = {}
          /\ \/ Pinged(self)
             \/ \E unit \in Units : Arrived(self, unit) /\ HoldsToken(bucket[unit]) ) =>
            /\ event'.out = "IndexError"
            /\ bucket'[self] = bucket[self]

C9_NoPeerLeavesBucket == [][C9_NoPeerStep]_vars

---------------------------------------------------------------------------
(* C10: one token. *)

\* C10 (as claimed): after the one ping action, in any deployment, at most
\* one unit is owed a token, and no two units have forwarded the same received
\* token (every write of the lineage has a times_passed of its own).
C10_SingleToken ==
    injects = 1 =>
        /\ InFlight <= 1
        /\ \A u, v \in Units :
               ( /\ u # v
                 /\ HoldsToken(bucket[u]) /\ HoldsToken(bucket[v])
                 /\ bucket[u].times_passed = bucket[v].times_passed )
               => bucket[u].times_passed = 0

---------------------------------------------------------------------------
(* C11: the stored configuration. *)

\* the step is _on_config_changed at self
Configured(self) == event'.op = "config" /\ event'.unit = self

\* C11, the update: after _on_config_changed the stored max_cycles and delay
\* are the configured ones, a value equal to the stored one left as it is, and
\* the storage of every other unit is untouched.
C11_UpdateStep ==
    \A self \in Units :
        Configured(self) =>
            /\ stored'[self].max_cycles = config'[self].max_cycles
            /\ stored'[self].delay = config'[self].delay
            /\ config'[self].max_cycles = stored[self].max_cycles
                   => stored'[self].max_cycles = stored[self].max_cycles
            /\ config'[self].delay = stored[self].delay
                   => stored'[self].delay = stored[self].delay
            /\ \A u \in Units \ {self} : stored'[u] = stored[u]

\* C11, the readers: the ping action and the token arrival leave the storage
\* alone; the arrival at the token's origin halts exactly when the stored
\* max_cycles is received.cycles_complete + 1, and a handler that sleeps
\* sleeps for the stored delay.
C11_ReadStep ==
    \A self \in Units :
        /\ (Pinged(self) \/ \E unit \in Units : Arrived(self, unit))
               => stored' = stored /\ config' = config
        /\ \A unit \in Units :
               ( /\ Arrived(self, unit) /\ HoldsToken(bucket[unit])
                 /\ bucket[unit].origin = self )
               => ( event'.out = "halted"
                      <=> stored[self].max_cycles = bucket[unit].cycles_complete + 1 )
        /\ (Pinged(self) /\ event'.out = "sent")
               => event'.slept = stored[self].delay
        /\ (\E unit \in Units : Arrived(self, unit)) /\ event'.out = "forwarded"
               => /\ event'.slept = stored[self].delay
                  /\ \E clock \in Clock : event'.now = clock + stored[self].delay

\* C11: the storage starts as {max_cycles: None, delay: 0} and follows the
\* configuration: every unit stores what it was configured with last.
C11_Cached ==
    \A u \in Units :
        /\ stored[u] = config[u]
        /\ configs = 0 => stored[u] = StoredDefault

C11_ConfigCache == []C11_Cached /\ [][C11_UpdateStep /\ C11_ReadStep]_vars

\* C11 witness: a unit configured with a max_cycles and a delay has slept
\* for that delay and forwarded the token.
C11_ConfiguredDelayUsed ==
    /\ event.op = "changed" /\ event.out = "forwarded"
    /\ configs = 1
    /\ stored[event.unit] = [max_cycles |-> 2, delay |-> 1]
    /\ event.slept = 1

---------------------------------------------------------------------------
(* C12: every set max_cycles bounds the ring. *)

\* C12, the limit at work: the origin that receives its token back with a
\* max_cycles stored and received.cycles_complete + 1 laps at or over it halts.
C12_LimitStep ==
    \A o, unit \in Units :
        ( /\ Arrived(o, unit) /\ HoldsToken(bucket[unit])
          /\ bucket[unit].origin = o
          /\ stored[o].max_cycles # None
          /\ bucket[unit].cycles_complete + 1 >= stored[o].max_cycles )
        => event'.out = "halted"

\* C12 (as claimed): in a ring, with any max_cycles of 0..MaxCycles stored at
\* the origin before the ping action of a non-empty token and left unchanged,
\* the origin is eventually Halted, the token that reaches the limit being the
\* one that is halted; with max_cycles unset no unit ever halts.
C12_EverySetBounds ==
    /\ \A o \in Units, k \in 0..MaxCycles :
           (RunOf(o, k) /\ HoldsToken(bucket[o])) ~> Halted(o)
    /\ [][C12_LimitStep]_vars
    /\ []NeverHalted

---------------------------------------------------------------------------
(* C13: the status. *)

\* the status shows the fields of token recv
Reflects(st, recv) ==
    /\ st.kind = "token"
    /\ st.M = recv.message
    /\ st.H = recv.next_holder
    /\ st.P = recv.times_passed
    /\ st.R = recv.times_received
    /\ st.C = recv.cycles_complete
    /\ st.T = recv.time_elapsed

\* C13 (as claimed): when a handler that forwarded a token is over, the
\* status of its unit shows the received token's message, next_holder,
\* times_passed, times_received, cycles_complete and time_elapsed; the status
\* stays as it is until the unit handles the next token; and the handler that
\* halts leaves the completion status naming received.time_elapsed.
C13_StatusStep ==
    \A self \in Units :
        /\ \A unit \in Units :
               /\ (Arrived(self, unit) /\ event'.out = "forwarded")
                      => Reflects(status'[self], bucket[unit])
               /\ (Arrived(self, unit) /\ event'.out = "halted")
                      => /\ Halted(self)'
                         /\ status'[self].T = bucket[unit].time_elapsed
        /\ ~(\E unit \in Units : Arrived(self, unit) /\ HoldsToken(bucket[unit]))
               => status'[self] = status[self]

C13_StatusReflectsToken == [][C13_StatusStep]_vars

---------------------------------------------------------------------------
(* C14: the forwarding target. *)

\* the step is a handler at self that assigned next_holder
Resolved(self) ==
    /\ Pinged(self) \/ \E unit \in Units : Arrived(self, unit)
    /\ event'.out \in {"sent", "forwarded", "CheckError"}

\* C14, membership: the next_holder written is a unit of the writer's
\* ping-send relation, of another application, and not the writer.
C14_MemberStep ==
    \A self \in Units :
        Resolved(self) =>
            /\ bucket'[self].next_holder \in relUnits[self]
            /\ App(bucket'[self].next_holder) # App(self)
            /\ bucket'[self].next_holder # self

\* C14, determinism: the units of the relation being the same, a unit that
\* wrote a next_holder before writes the same next_holder again.
C14_SameChoiceStep ==
    \A self \in Units :
        (Resolved(self) /\ bucket[self].next_holder # "")
            => bucket'[self].next_holder = bucket[self].next_holder

\* C14 (as claimed): every next_holder written is a unit on the forwarding
\* relation outside the writer's application, and the choice is the same
\* whenever the membership is the same.
C14_DeterministicTarget == [][C14_MemberStep /\ C14_SameChoiceStep]_vars

---------------------------------------------------------------------------
(* C15: message and origin along a lineage. *)

\* the (message, origin) pairs of the buckets a handler has written
Lineage ==
    {<<bucket[u].message, bucket[u].origin>> : u \in {v \in Units : bucket[v].origin # ""}}

\* C15, the hop: a handler that writes the next token writes the message and
\* the origin of the token it received.
C15_CopyStep ==
    \A self, unit \in Units :
        (Arrived(self, unit) /\ Wrote(event'.out)) =>
            /\ bucket'[self].message = bucket[unit].message
            /\ bucket'[self].origin = bucket[unit].origin

\* C15, the lineage: the one ping action starts it with the action's token
\* and the unit it ran at, and no later step adds or changes a pair.
C15_LineageStep ==
    /\ \A self \in Units : Pinged(self) => Lineage' = {<<event'.token, self>>}
    /\ (injects = 1 /\ injects' = 1) => Lineage' = Lineage

\* C15: every forwarding handler copies message and origin, so every token of
\* the lineage of a ping action has the unit of that action as origin and its
\* token as message.
C15_LineageImmutable == [][C15_CopyStep /\ C15_LineageStep]_vars

\* C15 witness: in the ring of three units the token has gone round, through
\* two units that are not its origin, and the origin has forwarded it again.
C15_CopiedRound ==
    /\ relUnits = Ring3
    /\ Lineage = {<<"hello", "a/0">>}
    /\ bucket["c/0"].times_passed = 3
    /\ bucket["a/0"].times_passed = 4
    /\ event.op = "changed" /\ event.unit = "a/0" /\ event.out = "forwarded"

---------------------------------------------------------------------------
(* C16: only the origin halts. *)

\* C16: a unit that receives a token of another unit's ping action does not
\* halt, whatever max_cycles it has stored: its status is not the completion
\* message, and when it has a forwarding candidate it writes the next token
\* (the message, a candidate as next_holder, one more hop, the same lap
\* count); a handler halts only at the origin of the token it received.
C16_NonOriginStep ==
    \A self, unit \in Units :
        /\ ( /\ Arrived(self, unit) /\ HoldsToken(bucket[unit])
              /\ bucket[unit].origin # self )
           => /\ event'.out # "halted"
              /\ ~Halted(self)'
              /\ Candidates(self, relUnits[self]) # {}
                     => /\ event'.out \in {"forwarded", "CheckError"}
                        /\ bucket'[self].message = bucket[unit].message
                        /\ bucket'[self].next_holder \in Candidates(self, relUnits[self])
                        /\ bucket'[self].times_passed = bucket[unit].times_passed + 1
                        /\ bucket'[self].cycles_complete = bucket[unit].cycles_complete
        /\ (Arrived(self, unit) /\ event'.out = "halted")
               => bucket[unit].origin = self

C16_OnlyOriginHalts == [][C16_NonOriginStep]_vars

\* C16 witness: a unit has forwarded the token of another unit while its own
\* stored max_cycles was received.cycles_complete + 1.
C16_LimitIgnoredOffOrigin ==
    /\ event.op = "changed" /\ event.out = "forwarded"
    /\ bucket[event.from].origin # event.unit
    /\ stored[event.unit].max_cycles = bucket[event.from].cycles_complete + 1
    /\ bucket[event.unit].times_passed = bucket[event.from].times_passed + 1

---------------------------------------------------------------------------
(* C17: the delay. *)

\* the step is a handler at self that wrote a whole token
Sent(self) ==
    \/ Pinged(self) /\ event'.out = "sent"
    \/ (\E unit \in Units : Arrived(self, unit)) /\ event'.out = "forwarded"

\* C17 (as claimed): a handler that writes a token with a delay stored sleeps
\* for the delay before it assigns any field of the send bucket and writes as
\* timestamp the time read when the sleep is over; with delay 0 it does not
\* sleep.
C17_DelayStep ==
    \A self \in Units :
        Sent(self) =>
            /\ stored[self].delay > 0
                   => /\ event'.slept = stored[self].delay
                      /\ event'.early = {}
                      /\ bucket'[self].timestamp = event'.woke
            /\ stored[self].delay = 0 => event'.slept = 0

C17_DelayBeforeWrite == [][C17_DelayStep]_vars

---------------------------------------------------------------------------
(* C18: whose bucket a handler writes. *)

\* C18, the frame: a handler at self leaves the bucket of every other unit,
\* the one it received included, as it was; _on_config_changed leaves every
\* bucket as it was.
C18_OwnStep ==
    \A self \in Units :
        /\ (Pinged(self) \/ \E unit \in Units : Arrived(self, unit))
               => \A u \in Units \ {self} : bucket'[u] = bucket[u]
        /\ Configured(self) => bucket' = bucket

\* C18, the owner's hand: a next_holder in a bucket is a forwarding candidate
\* of the unit that owns the bucket.
C18_WrittenByOwner ==
    \A u \in Units :
        bucket[u].next_holder # "" =>
            bucket[u].next_holder \in Candidates(u, relUnits[u])

\* C18: every handler writes the send bucket of its own unit only.
C18_BucketOwnership == []C18_WrittenByOwner /\ [][C18_OwnStep]_vars

\* C18 witness: a unit has read the token in a remote bucket and written the
\* next one into its own, the remote bucket still holding the token read.
C18_ReadRemoteWroteOwn ==
    /\ event.op = "changed" /\ event.out = "forwarded"
    /\ bucket[event.from].times_passed = 2
    /\ bucket[event.unit].times_passed = 3
    /\ bucket[event.from].next_holder = event.unit

---------------------------------------------------------------------------
(* C19: the cycle limit under reconfiguration. *)

\* C19 (as claimed): whenever the origin of a token forwards it while a
\* max_cycles k is stored there, the token it writes has cycles_complete < k,
\* the configuration changing at any time between the handlers.
C19_LimitStep ==
    \A self, unit \in Units :
        ( /\ Arrived(self, unit) /\ event'.out = "forwarded"
          /\ bucket[unit].origin = self
          /\ stored[self].max_cycles # None )
        => bucket'[self].cycles_complete < stored[self].max_cycles

C19_LimitNeverOverrun == [][C19_LimitStep]_vars

---------------------------------------------------------------------------
(* C20: hops and laps. *)

\* C20: in a ring of N units, one per application, after the one ping action
\* every token written has cycles_complete = (times_passed - 1) \div N, and a
\* token its origin wrote has times_passed = 1 modulo N.
C20_HopsAndLaps ==
    (relUnits \in Rings /\ injects = 1) =>
        LET n == RingSize(relUnits)
        IN  \A u \in Units :
                bucket[u].times_passed > 0 =>
                    /\ bucket[u].cycles_complete = (bucket[u].times_passed - 1) \div n
                    /\ bucket[u].origin = u => bucket[u].times_passed % n = 1

\* C20 witness: in the ring of three units the token is in its second lap,
\* five hops made, the origin having written the fourth.
C20_SecondLap ==
    /\ relUnits = Ring3 /\ injects = 1
    /\ bucket["a/0"].origin = "a/0" /\ bucket["a/0"].times_passed = 4
    /\ bucket["b/0"].times_passed = 5 /\ bucket["b/0"].cycles_complete = 1

=============================================================================
